---- MODULE Spec2Model ----
(***************************************************************************)
(* The 3D model conversion pipeline of Nexora-WebAR                        *)
(* (ModelConversionService and the parts of FileUploadService and storage  *)
(* it calls), as a state machine.                                          *)
(*                                                                         *)
(* JavaScript runs one continuation at a time: the code between two awaits *)
(* is one atomic action.  A job's position pc[j] names the await its       *)
(* pipeline is suspended on; the action for that position is the awaited   *)
(* operation settling (resolving or rejecting) followed by the code up to  *)
(* the next await.  A storage write is applied when it settles.            *)
(***************************************************************************)
EXTENDS Integers, Sequences, FiniteSets, TLC

\* ------------------------------------------------------------- bounds
NumJobs == 2        \* job ids and model rows that exist
MaxLinks == 3       \* size of the space nanoid(8) draws short links from
MaxJobs == 1        \* Spec: conversions submitted in one behaviour
MaxFaults == 2      \* Spec: operations the environment makes fail in one behaviour
MaxTicks == 2       \* Spec: clock advances in one behaviour
LiveFaults == 1     \* FairSpec: operations the environment makes fail
LiveTicks == 1      \* FairSpec: clock advances

\* ---------------------------------------------------------- constants
Retention == 86400000      \* 24 * 60 * 60 * 1000 ms, cleanupOldJobs

JobIds == 1..NumJobs
Models == 1..NumJobs
ShortLinks == 1..MaxLinks
TickSteps == {1, Retention}      \* how far one clock advance may go (ms)
NoTime == -1

\* Input paths: the extension as written, and whether the file is readable.
Exts == {".glb", ".GLB", ".gltf", ".fbx", ".obj", ".stl"}

\* path.extname(p).toLowerCase()
ToLowerCase(ext) ==
    CASE ext = ".GLB" -> ".glb"
      [] OTHER -> ext

\* ------------------------------------------------------------- values
NoUrl == [fmt |-> "", src |-> "", ctype |-> ""]
NoFiles == [glb |-> NoUrl, usdz |-> NoUrl, thumbnail |-> NoUrl]

\* interface ConversionJob; status "none" stands for a job id not yet issued
\* (startTime, which nothing reads, is left out)
NoJob == [modelId |-> 0, status |-> "none", inputFile |-> "", inputExists |-> FALSE,
          outputFiles |-> NoFiles, logs |-> <<>>,
          endTime |-> NoTime, error |-> "", metadata |-> "unset"]

\* the local variables of one processConversion call (a QR code URL is
\* written as the short link it encodes, 0 for the empty string)
NoLoc == [glbPath |-> "", optimizedGlbPath |-> "", usdzPath |-> "",
          thumbnailPath |-> "", metadata |-> "empty", shortLink |-> 0,
          qrCodeUrl |-> 0]

NoDir == [exists |-> FALSE, created |-> FALSE, files |-> {}, placeholder |-> {}]
NoUploads == [glb |-> "idle", usdz |-> "idle", thumbnail |-> "idle"]
NoCancel == [pending |-> FALSE, logs |-> <<>>]
NoHist == [cancelled |-> FALSE, wroteComplete |-> FALSE, attempts |-> 0]

\* updateJobLogs: `[${timestamp}] ${message}`; a line records whether it
\* carries a timestamp, not the timestamp's text
Entry(msg) == [stamped |-> TRUE, msg |-> msg]
Raw(msg) == [stamped |-> FALSE, msg |-> msg]

\* the arModels row, the fields the pipeline touches
InitModel(m) == [status |-> "processing", processingLogs |-> <<>>, shortLink |-> m,
                 glbFileUrl |-> NoUrl, usdzFileUrl |-> NoUrl, thumbnailUrl |-> NoUrl,
                 qrCodeUrl |-> 0, metadata |-> "empty"]

\* a row the upload handler has not created yet
NoModel == [status |-> "absent", processingLogs |-> <<>>, shortLink |-> 0,
            glbFileUrl |-> NoUrl, usdzFileUrl |-> NoUrl, thumbnailUrl |-> NoUrl,
            qrCodeUrl |-> 0, metadata |-> "empty"]

\* the row createArModel inserts: status 'uploading', shortLink nanoid(8)
NewModel(sl) == [NoModel EXCEPT !.status = "uploading", !.shortLink = sl]

VARIABLES
    registry,    \* ModelConversionService.jobs: the ids in the map
    job,         \* the ConversionJob objects, by id
    pc,          \* the await each job's convertModel/processConversion is suspended on
    loc,         \* processConversion's local variables
    workDir,     \* tempDir/<job id>: whether it exists and the files in it
    rootFiles,   \* files written directly into tempDir
    uploads,     \* the three uploadProcessedModel promises of a job
    model,       \* the arModels rows
    cancelW,     \* cancelJob's storage write, while in flight
    promise,     \* how the convertModel and processConversion promises settled
    now,         \* Date.now()
    nticks,      \* clock advances so far
    nfaults,     \* failures injected so far
    failedOps,   \* history: the operations that rejected, per job
    started,     \* history: the stages a job started, in order, with their input
    hist,        \* history: cancelled, wrote 'complete', upload rounds, per job
    tmpFile,     \* upload handler: whether the file multer stored (req.file.path) exists
    limits       \* the bounds of the behaviour (fixed by the initial state)

vars == <<registry, job, pc, loc, workDir, rootFiles, uploads, model, cancelW,
          promise, now, nticks, nfaults, failedOps, started, hist, tmpFile, limits>>

InitState ==
    /\ registry = {}
    /\ job = [j \in JobIds |-> NoJob]
    /\ pc = [j \in JobIds |-> "idle"]
    /\ loc = [j \in JobIds |-> NoLoc]
    /\ workDir = [j \in JobIds |-> NoDir]
    /\ rootFiles = {}
    /\ uploads = [j \in JobIds |-> NoUploads]
    \* rows of earlier uploads are there; a row an upload of this behaviour
    \* is for may still have to be created by the upload handler
    /\ \E absent \in SUBSET (1..MaxJobs) :
         model = [m \in Models |-> IF m \in absent THEN NoModel ELSE InitModel(m)]
    /\ tmpFile = [j \in JobIds |-> FALSE]
    /\ cancelW = [j \in JobIds |-> NoCancel]
    /\ promise = [j \in JobIds |-> [convertModel |-> "none", processConversion |-> "none"]]
    /\ now = 0
    /\ nticks = 0
    /\ nfaults = 0
    /\ failedOps = [j \in JobIds |-> {}]
    /\ started = [j \in JobIds |-> <<>>]
    /\ hist = [j \in JobIds |-> NoHist]

Init ==
    /\ InitState
    /\ limits = [jobs |-> MaxJobs, faults |-> MaxFaults, ticks |-> MaxTicks,
                 steps |-> {Retention}]

\* ------------------------------------------------- environment outcomes
\* An awaited operation settles with ok (resolve) or ~ok (reject).  It can
\* resolve only if `possible` (its input is there); where it could resolve,
\* the environment may still make it fail, MaxFaults times in a behaviour.
Settles(j, op, ok, possible) ==
    /\ ok => possible
    /\ (~ok /\ possible) => nfaults < limits.faults
    /\ nfaults' = IF ~ok /\ possible THEN nfaults + 1 ELSE nfaults
    /\ failedOps' = IF ok THEN failedOps
         ELSE [failedOps EXCEPT ![j] = @ \cup {<<op, IF possible THEN "env" ELSE "input">>}]

\* the operations of job j that rejected, and those among them that the
\* environment made fail (the others had no input to work on)
Failed(j) == {f[1] : f \in failedOps[j]}
Injected(j) == {f[1] : f \in {g \in failedOps[j] : g[2] = "env"}}

\* ------------------------------------------------------ pure helpers
\* (mutant) a log that keeps only its latest line
UpdateJobLogsOverwrites(jr, msg) == [jr EXCEPT !.logs = <<Entry(msg)>>]

\* updateJobLogs, up to its await: job.logs.push(`[${timestamp}] ${message}`)
UpdateJobLogs(jr, msg) == [jr EXCEPT !.logs = Append(@, Entry(msg))]

\* (mutant) a catch block that records the error but leaves the status alone
ProcessConversionCatchKeepsStatus(jr, err) ==
    [jr EXCEPT !.error = err, !.endTime = now]

\* the catch block of processConversion, up to its await
ProcessConversionCatch(jr, err) ==
    [jr EXCEPT !.status = "failed", !.error = err, !.endTime = now]

\* the payload of the catch block's storage write
FailedPayloadLogs(jr) == Append(jr.logs, Raw("Error: " \o jr.error))

\* the catch block of convertModel, up to its await (it sets no endTime)
ConvertModelCatch(jr, err) == [jr EXCEPT !.status = "failed", !.error = err]

\* the switch of processConversion on the lower-cased extension
Converter(ext) ==
    CASE ToLowerCase(ext) \in {".glb", ".gltf"} -> "processGLTF"
      [] ToLowerCase(ext) = ".fbx" -> "convertFBXtoGLB"
      [] ToLowerCase(ext) = ".obj" -> "convertOBJtoGLB"
      [] OTHER -> "unsupported"

\* processGLTF: path.extname(job.inputFile) === '.glb' copies, anything else
\* goes through gltf-pipeline
ProcessGLTFStep(ext) == IF ext = ".glb" THEN "conv_copy" ELSE "conv_tool"

\* (mutant) the optimized path is returned whether or not the tool wrote it
OptimizeForWebARAlwaysOptimized(glbPath, ok) == "optimized.glb"

\* optimizeForWebAR: the optimized path, or the original when the tool failed
OptimizeForWebAR(glbPath, ok) == IF ok THEN "optimized.glb" ELSE glbPath

\* (mutant) statistics reported whether or not fs.stat worked
AnalyzeModelAlwaysFull(ok) == "full"

\* analyzeModel: the statistics, or {} when fs.stat failed
AnalyzeModel(ok) == IF ok THEN "full" ELSE "empty"

\* uploadProcessedModel's ContentType
ContentType(format) ==
    IF format = "glb" THEN "model/gltf-binary" ELSE "model/vnd.usdz+zip"

UploadKinds == {"glb", "usdz", "thumbnail"}

\* the format argument of the three uploadProcessedModel calls
UploadFormat(k) ==
    CASE k = "glb" -> "glb" [] k = "usdz" -> "usdz" [] OTHER -> "jpg"

\* the file argument of the three uploadProcessedModel calls
UploadPath(l, k) ==
    CASE k = "glb" -> l.optimizedGlbPath
      [] k = "usdz" -> l.usdzPath
      [] OTHER -> l.thumbnailPath

\* the URL uploadProcessedModel returns: which file went up, under what type
UploadUrl(l, k) ==
    [fmt |-> UploadFormat(k), src |-> UploadPath(l, k),
     ctype |-> ContentType(UploadFormat(k))]

Stage(name, arg) == [stage |-> name, arg |-> arg]

\* the unique constraint on ar_models.short_link
ShortLinkFree(m, sl) == \A m2 \in Models \ {m} : model[m2].shortLink # sl

\* --------------------------------------------------------- convertModel
\* the job object convertModel builds
NewJob(m, ext, exists) ==
    [NoJob EXCEPT !.modelId = m, !.status = "pending", !.inputFile = ext,
                  !.inputExists = exists]

\* convertModel up to its first await: the job is built 'pending' and put
\* into the map, then storage.updateModel('processing') is awaited.
ConvertModel(j, m, ext, exists) ==
    /\ pc[j] = "idle"
    /\ \A i \in JobIds : i < j => pc[i] # "idle"
    /\ j <= limits.jobs
    /\ m = j      \* every conversion is for the row their upload created
    /\ model[m].status # "absent"
    /\ job' = [job EXCEPT ![j] = NewJob(m, ext, exists)]
    /\ registry' = registry \cup {j}
    /\ pc' = [pc EXCEPT ![j] = "cm_write"]
    /\ promise' = [promise EXCEPT ![j].convertModel = "pending"]
    /\ UNCHANGED <<limits, tmpFile, loc, workDir, rootFiles, uploads, model, cancelW, now, nticks,
                   nfaults, failedOps, started, hist>>

\* the 'processing' write settles.  Resolved: processConversion(job) runs up
\* to its first await (status 'processing', first log line) and convertModel
\* returns the id.  Rejected: convertModel's catch block.
ConvertModelWritten(j) ==
    /\ pc[j] = "cm_write"
    /\ \E ok \in BOOLEAN :
        /\ Settles(j, "startWrite", ok, TRUE)
        /\ model' = IF ok
             THEN [model EXCEPT ![job[j].modelId].status = "processing",
                                ![job[j].modelId].processingLogs =
                                    <<Raw("Conversion started...")>>]
             ELSE model
        /\ job' = [job EXCEPT ![j] =
             IF ok THEN UpdateJobLogs([@ EXCEPT !.status = "processing"],
                                      "Starting conversion process...")
                   ELSE ConvertModelCatch(@, "storage error")]
        /\ pc' = [pc EXCEPT ![j] = IF ok THEN "log_start" ELSE "cm_fail_write"]
        /\ promise' = IF ok
             THEN [promise EXCEPT ![j] = [convertModel |-> "resolved",
                                          processConversion |-> "pending"]]
             ELSE promise
    /\ UNCHANGED <<limits, tmpFile, registry, loc, workDir, rootFiles, uploads, cancelW, now, nticks,
                   started, hist>>

\* the 'failed' write of convertModel's catch block settles; either way
\* convertModel rejects
ConvertModelFailWritten(j) ==
    /\ pc[j] = "cm_fail_write"
    /\ \E ok \in BOOLEAN :
        /\ Settles(j, "startFailWrite", ok, TRUE)
        /\ model' = IF ok
             THEN [model EXCEPT ![job[j].modelId].status = "failed",
                                ![job[j].modelId].processingLogs = <<Raw(job[j].error)>>]
             ELSE model
    /\ pc' = [pc EXCEPT ![j] = "cm_rejected"]
    /\ promise' = [promise EXCEPT ![j].convertModel = "rejected"]
    /\ UNCHANGED <<limits, tmpFile, registry, job, loc, workDir, rootFiles, uploads, cancelW, now,
                   nticks, started, hist>>

\* ---------------------------------------------------- processConversion
\* Where the pipeline goes when an awaited updateJobLogs returns.
AfterLog(p) ==
    CASE p = "log_start" -> "mkdir"
      [] p = "log_conv" -> "conv_tool"
      [] p = "log_analyze" -> "analyze"
      [] p = "log_opt" -> "optimize"
      [] p = "log_usdz" -> "usdz_tool"
      [] p = "log_thumb" -> "thumb_script"
      [] p = "log_upload" -> "uploads"
      [] p = "log_link" -> "qr_buffer"
      [] p = "log_done" -> "cleanup"
      [] OTHER -> "done"

LogPcs == {"log_start", "log_conv", "log_analyze", "log_opt", "log_usdz",
           "log_thumb", "log_upload", "log_link", "log_done", "log_failed"}

\* the stage that starts when that updateJobLogs returns, with its input
StageAfterLog(p, l) ==
    CASE p = "log_analyze" -> <<Stage("analyze", l.glbPath)>>
      [] p = "log_opt" -> <<Stage("optimize", l.glbPath)>>
      [] p = "log_usdz" -> <<Stage("usdz", l.optimizedGlbPath)>>
      [] p = "log_thumb" -> <<Stage("thumbnail", l.optimizedGlbPath)>>
      [] p = "log_upload" -> <<Stage("upload", l.optimizedGlbPath)>>
      [] p = "log_link" -> <<Stage("link", "")>>
      [] OTHER -> <<>>

\* updateJobLogs' storage write settles (a rejection is caught and only
\* warned about), and the caller goes on to its next await.
UpdateJobLogsSettled(j) ==
    /\ pc[j] \in LogPcs
    /\ \E ok \in BOOLEAN :
        /\ Settles(j, "logWrite", ok, TRUE)
        /\ model' = IF ok
             THEN [model EXCEPT ![job[j].modelId].processingLogs = job[j].logs]
             ELSE model
    /\ pc' = [pc EXCEPT ![j] = AfterLog(pc[j])]
    /\ started' = [started EXCEPT ![j] = @ \o StageAfterLog(pc[j], loc[j])]
    \* Promise.all([...]): the three uploads start together
    /\ uploads' = IF pc[j] = "log_upload"
         THEN [uploads EXCEPT ![j] = [k \in UploadKinds |-> "pending"]]
         ELSE uploads
    /\ hist' = IF pc[j] = "log_upload" THEN [hist EXCEPT ![j].attempts = @ + 1] ELSE hist
    \* const shortLink = nanoid(8)
    /\ \E sl \in (IF pc[j] = "log_link" THEN ShortLinks ELSE {loc[j].shortLink}) :
         loc' = [loc EXCEPT ![j].shortLink = sl]
    /\ promise' = IF pc[j] = "log_failed"
         THEN [promise EXCEPT ![j].processConversion = "resolved"]
         ELSE promise
    /\ UNCHANGED <<limits, tmpFile, registry, job, workDir, rootFiles, cancelW, now, nticks>>

\* fs.mkdir(workDir) settles, then the switch on the extension runs up to the
\* chosen converter's first await; an unknown extension throws into the catch.
MkdirSettled(j) ==
    /\ pc[j] = "mkdir"
    /\ \E ok \in BOOLEAN :
        /\ Settles(j, "mkdir", ok, TRUE)
        /\ workDir' = IF ok THEN [workDir EXCEPT ![j].exists = TRUE, ![j].created = TRUE]
                            ELSE workDir
        /\ LET conv == Converter(job[j].inputFile) IN
            /\ job' = [job EXCEPT ![j] =
                 IF ~ok THEN ProcessConversionCatch(@, "mkdir failed")
                 ELSE IF conv = "unsupported"
                   THEN ProcessConversionCatch(@, "Unsupported file format: "
                                                    \o ToLowerCase(job[j].inputFile))
                   ELSE @]
            /\ pc' = [pc EXCEPT ![j] =
                 IF ~ok \/ conv = "unsupported" THEN "fail_write"
                 ELSE IF conv = "processGLTF" THEN ProcessGLTFStep(job[j].inputFile)
                 ELSE "conv_script"]
            /\ started' = IF ok /\ conv # "unsupported"
                 THEN [started EXCEPT ![j] = Append(@, Stage("convert", conv))]
                 ELSE started
    /\ UNCHANGED <<limits, tmpFile, registry, loc, rootFiles, uploads, model, cancelW, promise, now,
                   nticks, hist>>

\* convertFBXtoGLB / convertOBJtoGLB: fs.writeFile(convert.py) settles, then
\* the 'Converting ...' log line is pushed
ConvertScriptSettled(j) ==
    /\ pc[j] = "conv_script"
    /\ \E ok \in BOOLEAN :
        /\ Settles(j, "convertScript", ok, TRUE)
        /\ workDir' = IF ok THEN [workDir EXCEPT ![j].files = @ \cup {"convert.py"}]
                            ELSE workDir
        /\ job' = [job EXCEPT ![j] =
             IF ok THEN UpdateJobLogs(@, IF Converter(job[j].inputFile) = "convertFBXtoGLB"
                                           THEN "Converting FBX to GLB..."
                                           ELSE "Converting OBJ to GLB...")
                   ELSE ProcessConversionCatch(@, "writeFile failed")]
        /\ pc' = [pc EXCEPT ![j] = IF ok THEN "log_conv" ELSE "fail_write"]
    /\ UNCHANGED <<limits, tmpFile, registry, loc, rootFiles, uploads, model, cancelW, promise, now,
                   nticks, started, hist>>

\* the converter's copy (fs.copyFile) or external tool (runCommand) settles.
\* It cannot succeed on an input file that is not there.
ConverterSettled(j) ==
    /\ pc[j] \in {"conv_copy", "conv_tool"}
    /\ \E ok \in BOOLEAN :
        /\ Settles(j, IF pc[j] = "conv_copy" THEN "copyFile" ELSE "converter", ok,
                   job[j].inputExists)
        /\ workDir' = IF ok THEN [workDir EXCEPT ![j].files = @ \cup {"model.glb"}]
                            ELSE workDir
        /\ loc' = IF ok THEN [loc EXCEPT ![j].glbPath = "model.glb"] ELSE loc
        /\ job' = [job EXCEPT ![j] =
             IF ok THEN UpdateJobLogs(@, "Analyzing model...")
                   ELSE ProcessConversionCatch(@, IF pc[j] = "conv_copy"
                                                    THEN "copyFile failed"
                                                    ELSE "Command failed")]
        /\ pc' = [pc EXCEPT ![j] = IF ok THEN "log_analyze" ELSE "fail_write"]
    /\ UNCHANGED <<limits, tmpFile, registry, rootFiles, uploads, model, cancelW, promise, now, nticks,
                   started, hist>>

\* analyzeModel: fs.stat(glbPath) settles; a rejection is caught and gives {}
AnalyzeSettled(j) ==
    /\ pc[j] = "analyze"
    /\ \E ok \in BOOLEAN :
        /\ Settles(j, "stat", ok, loc[j].glbPath \in workDir[j].files)
        /\ loc' = [loc EXCEPT ![j].metadata = AnalyzeModel(ok)]
    /\ job' = [job EXCEPT ![j] = UpdateJobLogs(@, "Optimizing for WebAR...")]
    /\ pc' = [pc EXCEPT ![j] = "log_opt"]
    /\ UNCHANGED <<limits, tmpFile, registry, workDir, rootFiles, uploads, model, cancelW, promise,
                   now, nticks, started, hist>>

\* optimizeForWebAR: gltf-pipeline settles; a rejection is caught
OptimizeSettled(j) ==
    /\ pc[j] = "optimize"
    /\ \E ok \in BOOLEAN :
        /\ Settles(j, "optimizer", ok, loc[j].glbPath \in workDir[j].files)
        /\ workDir' = IF ok THEN [workDir EXCEPT ![j].files = @ \cup {"optimized.glb"}]
                            ELSE workDir
        /\ loc' = [loc EXCEPT ![j].optimizedGlbPath = OptimizeForWebAR(loc[j].glbPath, ok)]
    /\ job' = [job EXCEPT ![j] = UpdateJobLogs(@, "Generating USDZ for iOS...")]
    /\ pc' = [pc EXCEPT ![j] = "log_usdz"]
    /\ UNCHANGED <<limits, tmpFile, registry, rootFiles, uploads, model, cancelW, promise, now, nticks,
                   started, hist>>

\* generateUSDZ: usd_from_gltf settles; on rejection the placeholder is written
UsdzToolSettled(j) ==
    /\ pc[j] = "usdz_tool"
    /\ \E ok \in BOOLEAN :
        /\ Settles(j, "usdzTool", ok, loc[j].optimizedGlbPath \in workDir[j].files)
        /\ workDir' = IF ok THEN [workDir EXCEPT ![j].files = @ \cup {"model.usdz"}]
                            ELSE workDir
        /\ loc' = IF ok THEN [loc EXCEPT ![j].usdzPath = "model.usdz"] ELSE loc
        /\ job' = IF ok THEN [job EXCEPT ![j] = UpdateJobLogs(@, "Creating thumbnail...")]
                        ELSE job
        /\ pc' = [pc EXCEPT ![j] = IF ok THEN "log_thumb" ELSE "usdz_placeholder"]
    /\ UNCHANGED <<limits, tmpFile, registry, rootFiles, uploads, model, cancelW, promise, now, nticks,
                   started, hist>>

\* (mutant) a fallback that only warns and writes nothing
UsdzPlaceholderFilesNone(files) == files

\* generateUSDZ's fallback: fs.writeFile(usdzPath, 'placeholder usdz content')
UsdzPlaceholderFiles(files) == files \cup {"model.usdz"}

\* generateUSDZ: fs.writeFile(usdzPath, 'placeholder usdz content') settles;
\* it is awaited inside the catch block, so its rejection is not caught there
UsdzPlaceholderSettled(j) ==
    /\ pc[j] = "usdz_placeholder"
    /\ \E ok \in BOOLEAN :
        /\ Settles(j, "usdzPlaceholder", ok, workDir[j].exists)
        /\ workDir' = IF ok
             THEN [workDir EXCEPT ![j].files = UsdzPlaceholderFiles(@),
                                  ![j].placeholder = UsdzPlaceholderFiles(@) \ @]
             ELSE workDir
        /\ loc' = IF ok THEN [loc EXCEPT ![j].usdzPath = "model.usdz"] ELSE loc
        /\ job' = [job EXCEPT ![j] =
             IF ok THEN UpdateJobLogs(@, "Creating thumbnail...")
                   ELSE ProcessConversionCatch(@, "writeFile failed")]
        /\ pc' = [pc EXCEPT ![j] = IF ok THEN "log_thumb" ELSE "fail_write"]
    /\ UNCHANGED <<limits, tmpFile, registry, rootFiles, uploads, model, cancelW, promise, now, nticks,
                   started, hist>>

\* generateThumbnail: fs.writeFile(thumbnail.py) settles, then Blender is run
ThumbnailScriptSettled(j) ==
    /\ pc[j] = "thumb_script"
    /\ \E ok \in BOOLEAN :
        /\ Settles(j, "thumbnailScript", ok, workDir[j].exists)
        /\ workDir' = IF ok THEN [workDir EXCEPT ![j].files = @ \cup {"thumbnail.py"}]
                            ELSE workDir
        /\ job' = IF ok THEN job
                        ELSE [job EXCEPT ![j] = ProcessConversionCatch(@, "writeFile failed")]
        /\ pc' = [pc EXCEPT ![j] = IF ok THEN "thumb_tool" ELSE "fail_write"]
    /\ UNCHANGED <<limits, tmpFile, registry, loc, rootFiles, uploads, model, cancelW, promise, now,
                   nticks, started, hist>>

\* generateThumbnail: the Blender render settles.  Resolved: thumbnail.jpg is
\* there.  Rejected: fileUploadService.generateThumbnail('', '', {}) is
\* awaited inside the catch block; nothing is written to thumbnailPath.
ThumbnailToolSettled(j) ==
    /\ pc[j] = "thumb_tool"
    /\ \E ok \in BOOLEAN :
        /\ Settles(j, "thumbnailTool", ok, loc[j].optimizedGlbPath \in workDir[j].files)
        /\ workDir' = IF ok THEN [workDir EXCEPT ![j].files = @ \cup {"thumbnail.jpg"}]
                            ELSE workDir
        /\ loc' = IF ok THEN [loc EXCEPT ![j].thumbnailPath = "thumbnail.jpg"] ELSE loc
        /\ job' = IF ok
             THEN [job EXCEPT ![j] = UpdateJobLogs(@, "Uploading processed files...")]
             ELSE job
        /\ pc' = [pc EXCEPT ![j] = IF ok THEN "log_upload" ELSE "thumb_placeholder"]
    /\ UNCHANGED <<limits, tmpFile, registry, rootFiles, uploads, model, cancelW, promise, now, nticks,
                   started, hist>>

\* the files the thumbnail fallback leaves in the work directory: the
\* placeholder goes to S3 (models//thumbnail.jpeg), none is kept locally
ThumbnailFallbackFiles(files) == files

\* FileUploadService.generateThumbnail settles: the placeholder image was put
\* to S3 and its URL is dropped, or the upload threw (not caught: the call
\* sits in generateThumbnail's catch block).  thumbnailPath is returned.
ThumbnailPlaceholderSettled(j) ==
    /\ pc[j] = "thumb_placeholder"
    /\ \E ok \in BOOLEAN :
        /\ Settles(j, "thumbnailPlaceholder", ok, TRUE)
        /\ workDir' = IF ok
             THEN [workDir EXCEPT ![j].files = ThumbnailFallbackFiles(@)]
             ELSE workDir
        /\ loc' = IF ok THEN [loc EXCEPT ![j].thumbnailPath = "thumbnail.jpg"] ELSE loc
        /\ job' = [job EXCEPT ![j] =
             IF ok THEN UpdateJobLogs(@, "Uploading processed files...")
                   ELSE ProcessConversionCatch(@, "Failed to generate model thumbnail")]
        /\ pc' = [pc EXCEPT ![j] = IF ok THEN "log_upload" ELSE "fail_write"]
    /\ UNCHANGED <<limits, tmpFile, registry, rootFiles, uploads, model, cancelW, promise, now, nticks,
                   started, hist>>

\* (mutant) the thumbnail URL is left out of job.outputFiles
PublishedFilesNoThumbnail(l) ==
    [glb |-> UploadUrl(l, "glb"), usdz |-> UploadUrl(l, "usdz"), thumbnail |-> NoUrl]

\* what processConversion does once Promise.all resolved: job.outputFiles
PublishedFiles(l) ==
    [glb |-> UploadUrl(l, "glb"), usdz |-> UploadUrl(l, "usdz"),
     thumbnail |-> UploadUrl(l, "thumbnail")]

\* (mutant) Promise.allSettled: a rejected upload does not reject the whole
PromiseAllSettled(ok, othersOk) == IF othersOk THEN "resolved" ELSE "pending"

\* Promise.all over the three uploads, as one of them settles: it rejects
\* with the first rejection, resolves when the last one resolved, and is
\* otherwise still pending
PromiseAll(ok, othersOk) ==
    IF ~ok THEN "rejected" ELSE IF othersOk THEN "resolved" ELSE "pending"

\* One uploadProcessedModel promise settles (fs.readFile, then the S3 put).
\* Promise.all rejects with the first rejection and resolves with the third
\* resolution; uploads still in flight after a rejection settle unobserved.
UploadSettled(j, k) ==
    /\ uploads[j][k] = "pending"
    /\ \E ok \in BOOLEAN :
        /\ Settles(j, "upload_" \o k, ok,
                   workDir[j].exists /\ UploadPath(loc[j], k) \in workDir[j].files)
        /\ uploads' = [uploads EXCEPT ![j][k] = IF ok THEN "ok" ELSE "failed"]
        /\ LET waiting == pc[j] = "uploads"
               all == PromiseAll(ok, \A k2 \in UploadKinds \ {k} : uploads[j][k2] = "ok")
           IN
            /\ job' = [job EXCEPT ![j] =
                 IF waiting /\ all = "rejected"
                   THEN ProcessConversionCatch(@, "Failed to upload processed "
                                                    \o UploadFormat(k) \o " file")
                 ELSE IF waiting /\ all = "resolved"
                   THEN UpdateJobLogs([@ EXCEPT !.outputFiles = PublishedFiles(loc[j])],
                                      "Generating WebAR link...")
                 ELSE @]
            /\ pc' = [pc EXCEPT ![j] =
                 IF waiting /\ all = "rejected" THEN "fail_write"
                 ELSE IF waiting /\ all = "resolved" THEN "log_link"
                 ELSE @]
    /\ UNCHANGED <<limits, tmpFile, registry, loc, workDir, rootFiles, model, cancelW, promise, now,
                   nticks, started, hist>>

\* generateQRCode: QRCode.toBuffer settles; a rejection is caught and gives ''
QrBufferSettled(j) ==
    /\ pc[j] = "qr_buffer"
    /\ \E ok \in BOOLEAN :
        /\ Settles(j, "qrBuffer", ok, TRUE)
        /\ loc' = IF ok THEN loc ELSE [loc EXCEPT ![j].qrCodeUrl = 0]
        /\ pc' = [pc EXCEPT ![j] = IF ok THEN "qr_write" ELSE "final_write"]
    /\ UNCHANGED <<limits, tmpFile, registry, job, workDir, rootFiles, uploads, model, cancelW, promise,
                   now, nticks, started, hist>>

\* generateQRCode: fs.writeFile(path.join(this.tempDir, `qr-${shortLink}.png`))
\* settles; then the final storage write is issued
QrWriteSettled(j) ==
    /\ pc[j] = "qr_write"
    /\ \E ok \in BOOLEAN :
        /\ Settles(j, "qrWrite", ok, TRUE)
        /\ rootFiles' = IF ok THEN rootFiles \cup {loc[j].shortLink} ELSE rootFiles
        /\ loc' = [loc EXCEPT ![j].qrCodeUrl = IF ok THEN loc[j].shortLink ELSE 0]
    /\ pc' = [pc EXCEPT ![j] = "final_write"]
    /\ UNCHANGED <<limits, tmpFile, registry, job, workDir, uploads, model, cancelW, promise, now,
                   nticks, started, hist>>

\* the row the final storage.updateModel writes
FinalRecord(jr, l) ==
    [status |-> "complete", glbFileUrl |-> jr.outputFiles.glb,
     usdzFileUrl |-> jr.outputFiles.usdz, thumbnailUrl |-> jr.outputFiles.thumbnail,
     shortLink |-> l.shortLink, qrCodeUrl |-> l.qrCodeUrl, metadata |-> l.metadata,
     processingLogs |-> jr.logs]

\* what processConversion does to the job once the final write resolved
ProcessConversionComplete(jr) ==
    UpdateJobLogs([jr EXCEPT !.status = "complete", !.endTime = now],
                  "Conversion completed successfully!")

\* the final storage.updateModel settles (it rejects when another row holds
\* the short link).  Resolved: status 'complete', endTime, the last log line.
FinalWriteSettled(j) ==
    /\ pc[j] = "final_write"
    /\ \E ok \in BOOLEAN :
        /\ Settles(j, "finalWrite", ok, ShortLinkFree(job[j].modelId, loc[j].shortLink))
        /\ model' = IF ok THEN [model EXCEPT ![job[j].modelId] = FinalRecord(job[j], loc[j])]
                          ELSE model
        /\ job' = [job EXCEPT ![j] =
             IF ok THEN ProcessConversionComplete(@)
                   ELSE ProcessConversionCatch(@, "storage error")]
        /\ pc' = [pc EXCEPT ![j] = IF ok THEN "log_done" ELSE "fail_write"]
        /\ hist' = IF ok THEN [hist EXCEPT ![j].wroteComplete = TRUE] ELSE hist
    /\ UNCHANGED <<limits, tmpFile, registry, loc, workDir, rootFiles, uploads, cancelW, promise, now,
                   nticks, started>>

\* cleanup(workDir): fs.rm settles; a rejection is caught and only warned about
CleanupSettled(j) ==
    /\ pc[j] = "cleanup"
    /\ \E ok \in BOOLEAN :
        /\ Settles(j, "rm", ok, TRUE)
        /\ workDir' = IF ok
             THEN [workDir EXCEPT ![j].exists = FALSE, ![j].files = {},
                                  ![j].placeholder = {}]
             ELSE workDir
    /\ pc' = [pc EXCEPT ![j] = "done"]
    /\ promise' = [promise EXCEPT ![j].processConversion = "resolved"]
    /\ UNCHANGED <<limits, tmpFile, registry, job, loc, rootFiles, uploads, model, cancelW, now, nticks,
                   started, hist>>

\* where processConversion goes once the catch block's write resolved: the
\* 'Conversion failed' log line, then it returns (no cleanup on this path)
AfterFailWrite == "log_failed"

\* the catch block's storage.updateModel('failed') settles.  Resolved: the
\* 'Conversion failed' line is logged.  Rejected: processConversion rejects.
FailWriteSettled(j) ==
    /\ pc[j] = "fail_write"
    /\ \E ok \in BOOLEAN :
        /\ Settles(j, "failWrite", ok, TRUE)
        /\ model' = IF ok
             THEN [model EXCEPT ![job[j].modelId].status = "failed",
                                ![job[j].modelId].processingLogs = FailedPayloadLogs(job[j])]
             ELSE model
        /\ job' = IF ok
             THEN [job EXCEPT ![j] = UpdateJobLogs(@, "Conversion failed: " \o job[j].error)]
             ELSE job
        /\ pc' = [pc EXCEPT ![j] = IF ok THEN AfterFailWrite ELSE "rejected"]
        /\ promise' = IF ok THEN promise
                            ELSE [promise EXCEPT ![j].processConversion = "rejected"]
    /\ UNCHANGED <<limits, tmpFile, registry, loc, workDir, rootFiles, uploads, cancelW, now, nticks,
                   started, hist>>

\* ------------------------------------------------------------ cancelJob
\* (mutant) a cancelJob that also takes a job that has not started yet
CancelAppliesAlsoPending(j) ==
    j \in registry /\ job[j].status \in {"pending", "processing"}

\* cancelJob's test: job && job.status === 'processing'
CancelApplies(j) == j \in registry /\ job[j].status = "processing"

\* cancelJob for an id that fails the test: nothing is done
CancelJobIgnored(j) ==
    /\ ~CancelApplies(j)
    /\ UNCHANGED vars

\* cancelJob up to its await, for a registered job that is 'processing'
CancelJob(j) ==
    /\ CancelApplies(j)
    /\ job' = [job EXCEPT ![j].status = "failed", ![j].error = "Job cancelled by user",
                          ![j].endTime = now]
    /\ cancelW' = [cancelW EXCEPT ![j] =
         [pending |-> TRUE, logs |-> Append(job[j].logs, Raw("Job cancelled by user"))]]
    /\ hist' = [hist EXCEPT ![j].cancelled = TRUE]
    /\ UNCHANGED <<limits, tmpFile, registry, pc, loc, workDir, rootFiles, uploads, model, promise, now,
                   nticks, nfaults, failedOps, started>>

\* cancelJob's storage.updateModel('failed') settles
CancelWriteSettled(j) ==
    /\ cancelW[j].pending
    /\ \E ok \in BOOLEAN :
        /\ ok \/ nfaults < limits.faults
        /\ nfaults' = IF ok THEN nfaults ELSE nfaults + 1
        /\ model' = IF ok
             THEN [model EXCEPT ![job[j].modelId].status = "failed",
                                ![job[j].modelId].processingLogs = cancelW[j].logs]
             ELSE model
    /\ cancelW' = [cancelW EXCEPT ![j] = NoCancel]
    /\ UNCHANGED <<limits, tmpFile, registry, job, pc, loc, workDir, rootFiles, uploads, promise, now,
                   nticks, failedOps, started, hist>>

\* ------------------------------------------------------- cleanupOldJobs
\* (mutant) a sweep that also evicts a job ended exactly 24 hours ago
ExpiredInclusive(t) ==
    {j \in registry : job[j].endTime # NoTime /\ job[j].endTime <= t - Retention}

\* the ids cleanupOldJobs deletes: endTime set and before the cutoff
Expired(t) == {j \in registry : job[j].endTime # NoTime /\ job[j].endTime < t - Retention}

CleanupOldJobs ==
    /\ registry' = registry \ Expired(now)
    /\ UNCHANGED <<limits, tmpFile, job, pc, loc, workDir, rootFiles, uploads, model, cancelW, promise,
                   now, nticks, nfaults, failedOps, started, hist>>

\* ---------------------------------------------------------------- clock
Tick(d) ==
    /\ d \in limits.steps
    /\ nticks < limits.ticks
    /\ now' = now + d
    /\ nticks' = nticks + 1
    /\ UNCHANGED <<limits, tmpFile, registry, job, pc, loc, workDir, rootFiles, uploads, model, cancelW,
                   promise, nfaults, failedOps, started, hist>>

\* ------------------------------------------- POST /api/models/upload
\* the extension of req.file.path: multer's `dest` storage names the file
\* with random hex digits and no extension
MulterPathExt == ""

\* the handler up to its first await: multer has stored the file, and
\* storage.createArModel({status: 'uploading', shortLink: nanoid(8)}) is awaited
HandleUpload(j) ==
    /\ pc[j] = "idle"
    /\ \A i \in JobIds : i < j => pc[i] # "idle"
    /\ j <= limits.jobs
    /\ model[j].status = "absent"
    /\ tmpFile' = [tmpFile EXCEPT ![j] = TRUE]
    /\ pc' = [pc EXCEPT ![j] = "h_create"]
    /\ UNCHANGED <<limits, registry, job, loc, workDir, rootFiles, uploads, model,
                   cancelW, promise, now, nticks, nfaults, failedOps, started, hist>>

\* createArModel settles (the insert is rejected when another row holds the
\* short link); then fileUploadService.uploadFile is awaited
CreateArModelSettled(j) ==
    /\ pc[j] = "h_create"
    /\ \E sl \in ShortLinks, ok \in BOOLEAN :
        /\ Settles(j, "createArModel", ok, ShortLinkFree(j, sl))
        /\ model' = IF ok THEN [model EXCEPT ![j] = NewModel(sl)] ELSE model
        /\ pc' = [pc EXCEPT ![j] = IF ok THEN "h_upload" ELSE "h_rejected"]
    /\ UNCHANGED <<limits, tmpFile, registry, job, loc, workDir, rootFiles, uploads,
                   cancelW, promise, now, nticks, started, hist>>

\* uploadFile: fs.readFile and the S3 put settle; then the temp file is unlinked
UploadFileSettled(j) ==
    /\ pc[j] = "h_upload"
    /\ \E ok \in BOOLEAN :
        /\ Settles(j, "uploadFile", ok, tmpFile[j])
        /\ pc' = [pc EXCEPT ![j] = IF ok THEN "h_unlink" ELSE "h_rejected"]
    /\ UNCHANGED <<limits, tmpFile, registry, job, loc, workDir, rootFiles, uploads,
                   model, cancelW, promise, now, nticks, started, hist>>

\* uploadFile: fs.unlink(file.path) settles (a rejection is caught and only
\* warned about); then the handler awaits updateModel({status: 'processing'})
UnlinkSettled(j) ==
    /\ pc[j] = "h_unlink"
    /\ \E ok \in BOOLEAN :
        /\ Settles(j, "unlink", ok, tmpFile[j])
        /\ tmpFile' = IF ok THEN [tmpFile EXCEPT ![j] = FALSE] ELSE tmpFile
    /\ pc' = [pc EXCEPT ![j] = "h_update"]
    /\ UNCHANGED <<limits, registry, job, loc, workDir, rootFiles, uploads, model,
                   cancelW, promise, now, nticks, started, hist>>

\* the handler's updateModel settles.  Resolved: convertModel(model.id,
\* req.file.path) is called, not awaited, and runs up to its first await.
HandlerUpdateSettled(j) ==
    /\ pc[j] = "h_update"
    /\ \E ok \in BOOLEAN :
        /\ Settles(j, "handlerWrite", ok, TRUE)
        /\ model' = IF ok THEN [model EXCEPT ![j].status = "processing"] ELSE model
        /\ job' = IF ok THEN [job EXCEPT ![j] = NewJob(j, MulterPathExt, tmpFile[j])]
                        ELSE job
        /\ registry' = IF ok THEN registry \cup {j} ELSE registry
        /\ pc' = [pc EXCEPT ![j] = IF ok THEN "cm_write" ELSE "h_rejected"]
        /\ promise' = IF ok THEN [promise EXCEPT ![j].convertModel = "pending"]
                            ELSE promise
    /\ UNCHANGED <<limits, tmpFile, loc, workDir, rootFiles, uploads, cancelW, now,
                   nticks, started, hist>>

\* --------------------------------------------------------- specification
Next ==
    \/ \E j \in JobIds, m \in Models, ext \in Exts, exists \in BOOLEAN :
         ConvertModel(j, m, ext, exists)
    \/ \E j \in JobIds : ConvertModelWritten(j)
    \/ \E j \in JobIds : ConvertModelFailWritten(j)
    \/ \E j \in JobIds : UpdateJobLogsSettled(j)
    \/ \E j \in JobIds : MkdirSettled(j)
    \/ \E j \in JobIds : ConvertScriptSettled(j)
    \/ \E j \in JobIds : ConverterSettled(j)
    \/ \E j \in JobIds : AnalyzeSettled(j)
    \/ \E j \in JobIds : OptimizeSettled(j)
    \/ \E j \in JobIds : UsdzToolSettled(j)
    \/ \E j \in JobIds : UsdzPlaceholderSettled(j)
    \/ \E j \in JobIds : ThumbnailScriptSettled(j)
    \/ \E j \in JobIds : ThumbnailToolSettled(j)
    \/ \E j \in JobIds : ThumbnailPlaceholderSettled(j)
    \/ \E j \in JobIds, k \in UploadKinds : UploadSettled(j, k)
    \/ \E j \in JobIds : QrBufferSettled(j)
    \/ \E j \in JobIds : QrWriteSettled(j)
    \/ \E j \in JobIds : FinalWriteSettled(j)
    \/ \E j \in JobIds : CleanupSettled(j)
    \/ \E j \in JobIds : FailWriteSettled(j)
    \/ \E j \in JobIds : CancelJob(j)
    \/ \E j \in JobIds : CancelJobIgnored(j)
    \/ \E j \in JobIds : CancelWriteSettled(j)
    \/ \E j \in JobIds : HandleUpload(j)
    \/ \E j \in JobIds : CreateArModelSettled(j)
    \/ \E j \in JobIds : UploadFileSettled(j)
    \/ \E j \in JobIds : UnlinkSettled(j)
    \/ \E j \in JobIds : HandlerUpdateSettled(j)
    \/ CleanupOldJobs
    \/ \E d \in TickSteps : Tick(d)

Spec == Init /\ [][Next]_vars

\* every awaited operation of every job eventually settles
PipelineStep(j) ==
    \/ ConvertModelWritten(j) \/ ConvertModelFailWritten(j) \/ UpdateJobLogsSettled(j)
    \/ MkdirSettled(j) \/ ConvertScriptSettled(j) \/ ConverterSettled(j)
    \/ AnalyzeSettled(j) \/ OptimizeSettled(j) \/ UsdzToolSettled(j)
    \/ UsdzPlaceholderSettled(j) \/ ThumbnailScriptSettled(j) \/ ThumbnailToolSettled(j)
    \/ ThumbnailPlaceholderSettled(j) \/ QrBufferSettled(j) \/ QrWriteSettled(j)
    \/ FinalWriteSettled(j) \/ CleanupSettled(j) \/ FailWriteSettled(j)
    \/ \E k \in UploadKinds : UploadSettled(j, k)

\* The same program under smaller bounds, with the fairness the event loop
\* gives: a continuation whose awaited operation has settled does run.
FairInit ==
    /\ InitState
    /\ limits = [jobs |-> MaxJobs, faults |-> LiveFaults, ticks |-> LiveTicks,
                 steps |-> {Retention}]

FairSpec == FairInit /\ [][Next]_vars /\ \A j \in JobIds : WF_vars(PipelineStep(j))

\* ================================================================ claims
Terminal(st) == st \in {"complete", "failed"}

\* convertModel and processConversion of job j have both run to their end
Finished(j) == pc[j] \in {"done", "rejected", "cm_rejected"}

Supported(ext) == ext \in {".glb", ".gltf", ".fbx", ".obj"}

LaterStages == {"analyze", "optimize", "usdz", "thumbnail", "upload", "link"}

StagesOf(j) == {started[j][i].stage : i \in 1..Len(started[j])}

AllPublished(files) ==
    files.glb # NoUrl /\ files.usdz # NoUrl /\ files.thumbnail # NoUrl

\* C1: a conversion submitted for an input path whose extension is not one of
\* .glb/.gltf/.fbx/.obj is rejected to the caller, and no job is added to the
\* job registry for it.
C1_UnsupportedNeverRegistered ==
    \A j \in JobIds :
        Converter(job[j].inputFile) = "unsupported" =>
            /\ j \notin registry
            /\ promise[j].convertModel # "resolved"

\* C2: once a job's status is complete or failed, no step of the pipeline, of
\* cancelJob or of cleanupOldJobs changes it.
C2_TerminalStatusStable ==
    [][\A j \in JobIds : Terminal(job[j].status) => job'[j].status = job[j].status]_vars

\* C3: after cancelJob has failed a job, no later step populates its
\* outputFiles, changes its error or endTime, or writes 'complete' for it.
C3_CancelledJobUntouched ==
    [][\A j \in JobIds : hist[j].cancelled =>
          /\ job'[j].outputFiles = job[j].outputFiles
          /\ job'[j].error = job[j].error
          /\ job'[j].endTime = job[j].endTime
          /\ hist'[j].wroteComplete = hist[j].wroteComplete]_vars

\* C4: once the pipeline of a job whose working directory was created has
\* ended, the working directory is gone.
C4_WorkDirRemoved ==
    \A j \in JobIds : (Finished(j) /\ workDir[j].created) => ~workDir[j].exists

\* C5: a job for a supported extension whose operations all succeed and that
\* is not cancelled ends complete, with the three output files set and the
\* short link it drew persisted on its model record ...
C5_SuccessIsComplete ==
    \A j \in JobIds :
        (Finished(j) /\ Supported(job[j].inputFile) /\ Failed(j) = {}
            /\ ~hist[j].cancelled) =>
            /\ job[j].status = "complete"
            /\ AllPublished(job[j].outputFiles)
            /\ loc[j].shortLink \in ShortLinks
            /\ model[job[j].modelId].shortLink = loc[j].shortLink
            /\ model[job[j].modelId].status = "complete"

\* ... and every submitted job's pipeline does come to its end.
C5_PipelineEnds ==
    \A j \in JobIds : (pc[j] = "cm_write") ~> Finished(j)

\* C5 (the whole claim): for each supported extension, if every tool, upload
\* and storage write succeeds and the job is not cancelled, the job
\* eventually reaches complete with glb, usdz and thumbnail set and a
\* non-empty short link persisted on the model record.
C5_SuccessReachesComplete == []C5_SuccessIsComplete /\ C5_PipelineEnds

C5_Witness ==
    \E j \in JobIds :
        /\ Finished(j) /\ job[j].inputFile = ".obj" /\ Failed(j) = {}
        /\ ~hist[j].cancelled /\ job[j].status = "complete"

ConverterOps == {"convertScript", "copyFile", "converter"}

\* C6: if the format-converter stage of a job fails, the job is failed with a
\* non-empty error, its outputFiles stay empty, and no later stage (analyze,
\* optimize, USDZ, thumbnail, upload, link generation) is ever started.
C6_ConverterFailureAborts ==
    \A j \in JobIds :
        Failed(j) \cap ConverterOps # {} =>
            /\ job[j].status = "failed"
            /\ job[j].error # ""
            /\ job[j].outputFiles = NoFiles
            /\ StagesOf(j) \cap LaterStages = {}
            /\ uploads[j] = NoUploads

C6_Witness ==
    \E j \in JobIds : "converter" \in Failed(j) /\ pc[j] = "done"

\* C7: when the thumbnail render fails and nothing else is made to fail, the
\* thumbnail stage leaves an image at the path it returns, and the job ends
\* complete with outputFiles.thumbnail set.
C7_ThumbnailFallbackCompletes ==
    \A j \in JobIds :
        ("thumbnailTool" \in Failed(j) /\ Injected(j) = {"thumbnailTool"}
            /\ ~hist[j].cancelled) =>
            /\ loc[j].thumbnailPath # "" /\ workDir[j].exists =>
                  loc[j].thumbnailPath \in workDir[j].files
            /\ Finished(j) =>
                  job[j].status = "complete" /\ job[j].outputFiles.thumbnail # NoUrl

\* the stages of job j that take the optimized GLB, with the file they got
GlbConsumers(j) ==
    {started[j][i] : i \in {n \in 1..Len(started[j]) :
                              started[j][n].stage \in {"usdz", "thumbnail", "upload"}}}

\* C8: if the optimizer fails, USDZ generation, thumbnail generation and the
\* upload are given the converter's unoptimized GLB; and if nothing else
\* fails, the job ends complete with that file published.
C8_OptimizerFallback ==
    \A j \in JobIds :
        "optimizer" \in Failed(j) =>
            /\ \A s \in GlbConsumers(j) : s.arg = "model.glb"
            /\ (Finished(j) /\ Failed(j) = {"optimizer"} /\ ~hist[j].cancelled) =>
                  /\ job[j].status = "complete"
                  /\ job[j].outputFiles.glb.src = "model.glb"

C8_Witness ==
    \E j \in JobIds :
        /\ Failed(j) = {"optimizer"} /\ Finished(j) /\ ~hist[j].cancelled
        /\ job[j].status = "complete" /\ Cardinality(GlbConsumers(j)) = 3

\* C9: if the USDZ tool fails, a placeholder file is at the path generateUSDZ
\* returns; and if nothing else fails, the job ends complete with
\* outputFiles.usdz set.
C9_UsdzFallback ==
    \A j \in JobIds :
        "usdzTool" \in Failed(j) =>
            /\ (loc[j].usdzPath # "" /\ workDir[j].exists) =>
                  /\ loc[j].usdzPath \in workDir[j].files
                  /\ loc[j].usdzPath \in workDir[j].placeholder
            /\ (Finished(j) /\ Failed(j) = {"usdzTool"} /\ ~hist[j].cancelled) =>
                  /\ job[j].status = "complete"
                  /\ job[j].outputFiles.usdz # NoUrl

C9_Witness ==
    \E j \in JobIds :
        /\ Failed(j) = {"usdzTool"} /\ Finished(j) /\ ~hist[j].cancelled
        /\ job[j].status = "complete" /\ job[j].outputFiles.usdz.src = "model.usdz"

\* C10: if one of the three artifact uploads fails, the job is failed and
\* never complete, the uploads were started once only, and 'complete' is
\* never written to the model record for that job.
C10_UploadFailureIsFatal ==
    \A j \in JobIds :
        (\E k \in UploadKinds : uploads[j][k] = "failed") =>
            /\ job[j].status = "failed"
            /\ hist[j].attempts = 1
            /\ ~hist[j].wroteComplete
            /\ model[job[j].modelId].status # "complete"

C10_Witness ==
    \E j \in JobIds :
        /\ uploads[j].usdz = "failed" /\ uploads[j].glb = "ok"
        /\ uploads[j].thumbnail = "ok" /\ Finished(j)

\* the storage writes a running pipeline issues on its way to 'complete'
PipelineWrites == {"logWrite", "finalWrite"}

\* C11: a job for a supported extension that is not cancelled and in which
\* nothing but storage writes of the pipeline (log flushes, the final result
\* write) failed ends complete.
C11_PersistenceFailureNonFatal ==
    \A j \in JobIds :
        (Finished(j) /\ Supported(job[j].inputFile) /\ ~hist[j].cancelled
            /\ Failed(j) \subseteq PipelineWrites) =>
            job[j].status = "complete"

IsPrefix(s, t) == Len(s) <= Len(t) /\ SubSeq(t, 1, Len(s)) = s

\* C12: in every step the old job.logs is a prefix of the new one; a step
\* that appends a line appends one line and leaves the pipeline awaiting the
\* storage write of the log, and when that write resolves the model record's
\* processingLogs is the whole of job.logs.
C12_LogsAppendOnly ==
    [][\A j \in JobIds :
          /\ IsPrefix(job[j].logs, job'[j].logs)
          /\ job'[j].logs # job[j].logs =>
                /\ Len(job'[j].logs) = Len(job[j].logs) + 1
                /\ pc'[j] \in LogPcs
          /\ (pc[j] \in LogPcs /\ pc'[j] # pc[j] /\ nfaults' = nfaults) =>
                model'[job[j].modelId].processingLogs = job[j].logs]_vars

C12_Witness ==
    \E j \in JobIds :
        /\ Len(job[j].logs) >= 3
        /\ model[job[j].modelId].processingLogs = job[j].logs
        /\ pc[j] \notin LogPcs

\* C13: a run of cleanupOldJobs at time now leaves in the registry exactly
\* the jobs that were in it and have no endTime or an endTime not before
\* now - 24 h; and no other step removes a job from the registry.
C13_SweepEvictsExactlyExpired ==
    [][/\ CleanupOldJobs =>
            registry' = {j \in registry : \/ job[j].endTime = NoTime
                                          \/ job[j].endTime >= now - Retention}
       /\ ~CleanupOldJobs => registry \subseteq registry']_vars

C13_Witness ==
    \E j \in JobIds :
        /\ job[j].status = "complete" /\ j \notin registry
        /\ job[j].endTime < now - Retention

\* C14: when a job issues the write that persists its short link, no other
\* model record holds that short link.
C14_LinkCheckedBeforeWrite ==
    \A j \in JobIds :
        pc[j] = "final_write" => ShortLinkFree(job[j].modelId, loc[j].shortLink)

\* the place of each stage in the order convert, optimize, USDZ, thumbnail,
\* analyze, publish (upload, then link)
StageRank(stage) ==
    CASE stage = "convert" -> 1
      [] stage = "optimize" -> 2
      [] stage = "usdz" -> 3
      [] stage = "thumbnail" -> 4
      [] stage = "analyze" -> 5
      [] stage = "upload" -> 6
      [] OTHER -> 7

\* C15: the stages of a job start in the order convert, optimize, USDZ,
\* thumbnail, analyze, publish; in particular the analysis starts after the
\* thumbnail stage.
C15_StageOrder ==
    \A j \in JobIds : \A a, b \in 1..Len(started[j]) :
        a < b => StageRank(started[j][a].stage) < StageRank(started[j][b].stage)

\* C16: in an execution in which no operation fails, once a job's pipeline
\* has ended and cancelJob's write has been applied, the model record's
\* status is the job's status.
C16_ModelStatusConverges ==
    \A j \in JobIds :
        (Finished(j) /\ Terminal(job[j].status) /\ ~cancelW[j].pending
            /\ nfaults = 0) =>
            model[job[j].modelId].status = job[j].status

\* C17: no file is ever written directly into the shared working-directory
\* root: every file of a job is in that job's own subdirectory.
C17_FilesInOwnWorkDir == rootFiles = {}

\* C18: a job with an output file or its metadata set is complete, and a job
\* that is complete after a successful analysis has its metadata set.
C18_OutputsOnlyWhenComplete ==
    \A j \in JobIds :
        /\ (job[j].outputFiles # NoFiles \/ job[j].metadata # "unset") =>
              job[j].status = "complete"
        /\ (job[j].status = "complete" /\ loc[j].metadata = "full") =>
              job[j].metadata # "unset"

\* C19: a job whose error is set has status failed.
C19_ErrorOnlyWhenFailed ==
    \A j \in JobIds : job[j].error # "" => job[j].status = "failed"

\* C20: if fs.stat fails in the analysis stage, the metadata is the empty
\* object and the pipeline goes on to the optimizer; the failure alone never
\* fails the job, which ends complete if nothing else fails.
C20_AnalysisNeverFails ==
    \A j \in JobIds :
        "stat" \in Failed(j) =>
            /\ loc[j].metadata = "empty"
            /\ pc[j] = "log_opt" \/ "optimize" \in StagesOf(j)
            /\ (Failed(j) = {"stat"} /\ ~hist[j].cancelled) =>
                  /\ job[j].status \in {"processing", "complete"}
                  /\ job[j].error = ""
                  /\ Finished(j) => job[j].status = "complete"

C20_Witness ==
    \E j \in JobIds :
        /\ Failed(j) = {"stat"} /\ Finished(j) /\ ~hist[j].cancelled
        /\ job[j].status = "complete"
        /\ model[job[j].modelId].metadata = "empty"

\* C21: the processingLogs of a model record only grow: in every step the
\* sequence on the record before the step is a prefix of the one after it.
C21_PersistedLogsGrow ==
    [][\A m \in Models :
          IsPrefix(model[m].processingLogs, model'[m].processingLogs)]_vars

\* C22: when the pipeline of a job that failed on a pipeline error (and was
\* not cancelled) has ended, the last line of job.logs describes the failure.
C22_FailureLogged ==
    \A j \in JobIds :
        (pc[j] \in {"done", "rejected"} /\ job[j].status = "failed"
            /\ ~hist[j].cancelled) =>
            /\ Len(job[j].logs) > 0
            /\ job[j].logs[Len(job[j].logs)].msg = "Conversion failed: " \o job[j].error

\* C23: no state in which another operation can run has a registered job
\* that is still pending.
C23_PendingNeverObservable ==
    \A j \in registry : job[j].status # "pending"

\* C24: from the moment the upload handler has handed its file to
\* convertModel until the job's pipeline has ended, the file is there.
C24_InputFileKept ==
    \A j \in registry :
        (job[j].inputFile = MulterPathExt /\ ~Finished(j)) => job[j].inputExists

\* C25: an input whose extension is .glb in any letter case is never given
\* to the external converter tool.
C25_GlbCopiedInAnyCase ==
    \A j \in JobIds :
        pc[j] = "conv_tool" => ToLowerCase(job[j].inputFile) # ".glb"

\* the content type of each kind of artifact
KindContentType(k) ==
    CASE k = "glb" -> "model/gltf-binary"
      [] k = "usdz" -> "model/vnd.usdz+zip"
      [] OTHER -> "image/jpeg"

\* C26: every artifact that was uploaded went up under the content type of
\* its own kind.
C26_ContentTypeOfOwnKind ==
    \A j \in JobIds : \A k \in UploadKinds :
        uploads[j][k] = "ok" => UploadUrl(loc[j], k).ctype = KindContentType(k)

\* C27: every registered job with a terminal status has its endTime set.
C27_TerminalHasEndTime ==
    \A j \in registry : Terminal(job[j].status) => job[j].endTime # NoTime

\* C28: the processConversion promise of a job never rejects, and the
\* convertModel promise of a job the upload handler started never rejects.
C28_NoUnhandledRejection ==
    \A j \in JobIds :
        /\ promise[j].processConversion # "rejected"
        /\ job[j].inputFile = MulterPathExt => promise[j].convertModel # "rejected"

\* C29: a short link stored on a model record is never replaced by another.
C29_ShortLinkKept ==
    [][\A m \in Models :
          model[m].shortLink # 0 => model'[m].shortLink = model[m].shortLink]_vars

\* C30: for an id that is not in the registry, or whose job is pending,
\* complete or failed, no cancellation takes effect and cancelJob issues no
\* storage write: a cancelJob step leaves the job, the registry, the model
\* records and the writes in flight as they are.
C30_CancelIgnored ==
    [][\A j \in JobIds :
          (j \notin registry \/ job[j].status \in {"none", "pending", "complete", "failed"}) =>
              /\ hist'[j].cancelled = hist[j].cancelled
              /\ cancelW'[j].pending => cancelW[j].pending
              /\ (CancelJob(j) \/ CancelJobIgnored(j)) =>
                    UNCHANGED <<job, registry, model, cancelW>>]_vars

C30_Witness ==
    /\ \E j \in registry :
          /\ job[j].status = "complete" /\ ~hist[j].cancelled
          /\ ~cancelW[j].pending /\ ENABLED CancelJobIgnored(j)
    /\ \E j \in JobIds : j \notin registry /\ ENABLED CancelJobIgnored(j)

====
